---- MODULE Spec2Model ----
(***************************************************************************)
(* Model of the repeat_action tool                                         *)
(* (packages/playwright/src/mcp/browser/tools/customTools/actions/         *)
(* repeatAction.ts): one invocation of handle(), cut at its suspension     *)
(* points (every await).  The collaborators (tab.refLocator, the locator's *)
(* interaction and state methods, the clock) are the environment: each     *)
(* call may take time, may fail, and a state check may answer either way.  *)
(***************************************************************************)
EXTENDS Integers, Sequences, FiniteSets, TLC

VARIABLES
    loop,        \* parsed params.loop   : [type, iterations, until]
    action,      \* parsed params.action : [type, value]
    limits,      \* parsed params.limits : optional [maxIterations]
    startTime,   \* const startTime = Date.now()
    now,         \* the wall clock, in ticks
    iteration,   \* let iteration = 0
    evidence,    \* const evidence: any[] = []
    pc,          \* the suspension point handle() is at
    scope,       \* tab.waitForCompletion: "none", "entered", "completed", "aborted"
    timer,       \* milliseconds of the sleep() in flight, 0 when none
    error,       \* message of the error handle() rejected with, "none" otherwise
    response,    \* what response.addTextResult received (optional)
    calls,       \* history: number of calls made, per callee
    condLog,     \* history: the values evaluateCondition returned, in order
    failedCall,  \* history: the collaborator call that failed, "none" otherwise
    stopReason,  \* history: why loopStart returned
    settled,     \* history: number of awaited calls and delays that have settled
    late         \* history: number of actions started with the timeout exceeded

vars == <<loop, action, limits, startTime, now, iteration, evidence, pc, scope,
          timer, error, response, calls, condLog, failedCall, stopReason,
          settled, late>>

(***************************************************************************)
(* Bounds of the model.                                                    *)
(***************************************************************************)
\* largest loop.iterations drawn
MaxIterationsArg == 2
\* largest limits.maxIterations drawn
MaxLimitArg == 2
\* largest number of clock ticks one await may take
MaxStep == 1

(***************************************************************************)
(* Optional values: undefined is the empty sequence, a value v is <<v>>.   *)
(***************************************************************************)
None == <<>>
Some(v) == <<v>>
Min(a, b) == IF a < b THEN a ELSE b

\* helpers/utils ELEMENT_ATTACHED_TIMEOUT, in clock ticks
ELEMENT_ATTACHED_TIMEOUT == 2
\* the clock saturates once the timeout is exceeded
ClockCap == ELEMENT_ATTACHED_TIMEOUT + 1

LoopTypes == {"for", "while", "do-while"}
ActionTypes == {"click", "hover", "fill", "press"}
AssertionTypes == {"toBeVisible", "toBeHidden", "toBeEnabled", "toBeDisabled"}
\* values outside the enumerations the switch statements handle
OtherActionType == "drag"
OtherAssertionType == "toHaveText"

\* repeatActionSchema.parse(rawParams): the shapes handle() goes on with
Loops ==
    [type : LoopTypes,
     iterations : {None} \cup {Some(n) : n \in 0..MaxIterationsArg},
     until : {None} \cup {Some([assertionType |-> a, negate |-> g]) :
                             a \in AssertionTypes \cup {OtherAssertionType},
                             g \in BOOLEAN}]
Actions ==
    [type : ActionTypes \cup {OtherActionType}, value : {None, Some("v")}]
Limits ==
    {None} \cup {Some([maxIterations |-> Some(m)]) : m \in 0..MaxLimitArg}


(***************************************************************************)
(* The pure parts of handle().                                             *)
(***************************************************************************)
\* const maxIterations = limits?.maxIterations ?? 20
maxIterations ==
    IF limits = None THEN 20
    ELSE IF limits[1].maxIterations = None THEN 20
    ELSE limits[1].maxIterations[1]

\* a variant of ValidationError: iterations tested for truthiness (!loop.iterations)
ValidationErrorFalsyIterations ==
    IF loop.type = "for" /\ (loop.iterations = None \/ loop.iterations = Some(0))
    THEN "repeat_action: \"iterations\" is required when loop.type is \"for\""
    ELSE IF loop.type \in {"while", "do-while"} /\ loop.until = None
    THEN "repeat_action: \"until\" condition is required when loop.type is \""
             \o loop.type \o "\""
    ELSE "none"

\* a variant of ValidationError: the check of until left out
ValidationErrorNoUntilCheck ==
    IF loop.type = "for" /\ loop.iterations = None
    THEN "repeat_action: \"iterations\" is required when loop.type is \"for\""
    ELSE "none"

\* the checks of loop before the closures are built: the message thrown, or "none"
ValidationError ==
    IF loop.type = "for" /\ loop.iterations = None
    THEN "repeat_action: \"iterations\" is required when loop.type is \"for\""
    ELSE IF loop.type \in {"while", "do-while"} /\ loop.until = None
    THEN "repeat_action: \"until\" condition is required when loop.type is \""
             \o loop.type \o "\""
    ELSE "none"

\* a variant of ActionDispatch: fill and press called without the check of value
ActionDispatchNoValueCheck ==
    CASE action.type = "click" -> [call |-> "click", throws |-> "none"]
      [] action.type = "hover" -> [call |-> "hover", throws |-> "none"]
      [] action.type = "fill" -> [call |-> "fill", throws |-> "none"]
      [] action.type = "press" -> [call |-> "press", throws |-> "none"]
      [] OTHER -> [call |-> "none",
                   throws |-> "Unsupported action type: " \o action.type]

\* runAction's switch (action.type): the locator method called, or the error thrown
ActionDispatch ==
    CASE action.type = "click" -> [call |-> "click", throws |-> "none"]
      [] action.type = "hover" -> [call |-> "hover", throws |-> "none"]
      [] action.type = "fill" ->
            IF action.value = None
            THEN [call |-> "none", throws |-> "Fill action requires a value"]
            ELSE [call |-> "fill", throws |-> "none"]
      [] action.type = "press" ->
            IF action.value = None
            THEN [call |-> "none", throws |-> "Press action requires a value"]
            ELSE [call |-> "press", throws |-> "none"]
      [] OTHER -> [call |-> "none",
                   throws |-> "Unsupported action type: " \o action.type]

\* a variant of AssertionDispatch: the case 'toBeDisabled' left out
AssertionDispatchMissingCase ==
    LET t == loop.until[1].assertionType IN
    CASE t = "toBeVisible" -> [call |-> "isVisible", throws |-> "none"]
      [] t = "toBeHidden" -> [call |-> "isHidden", throws |-> "none"]
      [] t = "toBeEnabled" -> [call |-> "isEnabled", throws |-> "none"]
      [] OTHER -> [call |-> "none",
                   throws |-> "Unsupported assertion type: " \o t]

\* evaluateCondition's switch (assertion.assertionType)
AssertionDispatch ==
    LET t == loop.until[1].assertionType IN
    CASE t = "toBeVisible" -> [call |-> "isVisible", throws |-> "none"]
      [] t = "toBeHidden" -> [call |-> "isHidden", throws |-> "none"]
      [] t = "toBeEnabled" -> [call |-> "isEnabled", throws |-> "none"]
      [] t = "toBeDisabled" -> [call |-> "isDisabled", throws |-> "none"]
      [] OTHER -> [call |-> "none",
                   throws |-> "Unsupported assertion type: " \o t]

\* return negate ? !result : result
ConditionMet(result) ==
    IF loop.until[1].negate THEN ~result ELSE result

\* a variant of TimedOut: the operands of the subtraction swapped
TimedOutReversed(t) == startTime - t > ELEMENT_ATTACHED_TIMEOUT

\* Date.now() - startTime > ELEMENT_ATTACHED_TIMEOUT, at clock reading t
TimedOut(t) == t - startTime > ELEMENT_ATTACHED_TIMEOUT

\* the word the evidence message uses for the discipline
LoopWord ==
    CASE loop.type = "for" -> "for-loop"
      [] loop.type = "while" -> "while-loop"
      [] OTHER -> "do-while"

\* a variant of Record: the counter as it was before iteration++
RecordZeroBased(n) ==
    [iteration |-> n - 1,
     action |-> action,
     message |-> "Performed " \o LoopWord \o " iteration " \o ToString(n - 1)]

\* evidence.push({ iteration, action, message })
Record(n) ==
    [iteration |-> n,
     action |-> action,
     message |-> "Performed " \o LoopWord \o " iteration " \o ToString(n)]

\* sleep(300) in the for loop, sleep(100) in the others
SleepMs == IF loop.type = "for" THEN 300 ELSE 100

\* a variant of Status: iteration >= 0
StatusNonNegative(n) == IF n >= 0 THEN "pass" ELSE "fail"

\* iteration > 0 ? 'pass' : 'fail'
Status(n) == IF n > 0 THEN "pass" ELSE "fail"

\* const toolResponse = { action, loop, summary, checks }
ToolResponse ==
    [action |-> action,
     loop |-> loop,
     summary |-> [total |-> iteration,
                  passed |-> IF iteration > 0 THEN 1 ELSE 0,
                  failed |-> IF iteration > 0 THEN 0 ELSE 1,
                  status |-> Status(iteration),
                  evidence |-> evidence],
     checks |-> << [property |-> "action-execution",
                    operator |-> loop.type,
                    expected |-> IF loop.type = "for"
                                 THEN (IF loop.iterations = None THEN "undefined"
                                       ELSE ToString(loop.iterations[1]))
                                      \o " iterations"
                                 ELSE "condition met or maxIterations reached",
                    actual |-> iteration,
                    result |-> Status(iteration)] >>]

(***************************************************************************)
(* Control flow of loopStart: where control goes next, and, when the loop  *)
(* is left, why.                                                           *)
(***************************************************************************)
GoRun == [to |-> "runAction", why |-> "none"]
GoEval == [to |-> "evaluateCondition", why |-> "none"]
Leave(why) == [to |-> "return", why |-> why]

\* a variant of ForContinues: iteration <= loop.iterations
ForContinuesInclusive == loop.iterations # None /\ iteration <= loop.iterations[1]

\* while (iteration < loop.iterations!): a comparison with undefined is false
ForContinues == loop.iterations # None /\ iteration < loop.iterations[1]

\* a variant of WhileContinues: iteration <= maxIterations
WhileContinuesInclusive == iteration <= maxIterations

\* while (iteration < maxIterations)
WhileContinues == iteration < maxIterations

\* a variant of ForTop: the for loop also held to maxIterations
ForTopCapped ==
    IF ForContinues /\ iteration < maxIterations THEN GoRun ELSE Leave("count")

\* the top of the for loop
ForTop == IF ForContinues THEN GoRun ELSE Leave("count")

\* a variant of WhileTop: the action run without the pre-check
WhileTopNoCheck == IF WhileContinues THEN GoRun ELSE Leave("cap")

\* the top of the while loop
WhileTop == IF WhileContinues THEN GoEval ELSE Leave("cap")

\* a variant of LoopEntry: do-while entered through the while loop's pre-check
LoopEntryPreChecked ==
    CASE loop.type = "for" -> ForTop
      [] loop.type = "while" -> WhileTop
      [] loop.type = "do-while" -> WhileTop
      [] OTHER -> Leave("none")

\* entering loopStart
LoopEntry ==
    CASE loop.type = "for" -> ForTop
      [] loop.type = "while" -> WhileTop
      [] loop.type = "do-while" -> GoRun
      [] OTHER -> Leave("none")

\* a variant of AfterSleep: the while loop without its timeout break
AfterSleepNoTimeout(t) ==
    CASE loop.type = "for" -> ForTop
      [] loop.type = "while" -> WhileTop
      [] OTHER -> GoEval

\* after await sleep(..) resolved at clock reading t
AfterSleep(t) ==
    CASE loop.type = "for" -> ForTop
      [] loop.type = "while" ->
            IF TimedOut(t) THEN Leave("timeout") ELSE WhileTop
      [] OTHER -> GoEval

\* a variant of AfterCondition: the do-while cap tested with iteration > maxIterations
AfterConditionCapExclusive(conditionMet, t) ==
    IF loop.type = "while"
    THEN IF conditionMet THEN Leave("condition") ELSE GoRun
    ELSE IF conditionMet THEN Leave("condition")
         ELSE IF iteration > maxIterations THEN Leave("cap")
         ELSE IF TimedOut(t) THEN Leave("timeout")
         ELSE GoRun

\* a variant of AfterCondition: the while loop breaks on !conditionMet
AfterConditionInverted(conditionMet, t) ==
    IF loop.type = "while"
    THEN IF ~conditionMet THEN Leave("condition") ELSE GoRun
    ELSE IF conditionMet THEN Leave("condition")
         ELSE IF iteration >= maxIterations THEN Leave("cap")
         ELSE IF TimedOut(t) THEN Leave("timeout")
         ELSE GoRun

\* after evaluateCondition returned conditionMet at clock reading t
AfterCondition(conditionMet, t) ==
    IF loop.type = "while"
    THEN IF conditionMet THEN Leave("condition") ELSE GoRun
    ELSE IF conditionMet THEN Leave("condition")
         ELSE IF iteration >= maxIterations THEN Leave("cap")
         ELSE IF TimedOut(t) THEN Leave("timeout")
         ELSE GoRun

\* evaluateCondition's first line: if (!loop.until) return false, without awaiting
Resolve(go, t) ==
    IF go.to = "evaluateCondition" /\ loop.until = None
    THEN AfterCondition(FALSE, t)
    ELSE go

(***************************************************************************)
(* The state after construction: the parsed parameters are any of the      *)
(* shapes above; nothing has run.                                          *)
(***************************************************************************)
NoCalls ==
    [runAction |-> 0, evaluateCondition |-> 0, refLocator |-> 0,
     interaction |-> 0, completed |-> 0, check |-> 0, sleep |-> 0]

Init ==
    /\ loop \in Loops
    /\ action \in Actions
    /\ limits \in Limits
    /\ startTime = 0
    /\ now = 0
    /\ iteration = 0
    /\ evidence = <<>>
    /\ pc = "start"
    /\ scope = "none"
    /\ timer = 0
    /\ error = "none"
    /\ response = None
    /\ calls = NoCalls
    /\ condLog = <<>>
    /\ failedCall = "none"
    /\ stopReason = "none"
    /\ settled = 0
    /\ late = 0

\* the clock after an await that took d ticks
Tick(d) == Min(now + d, ClockCap)

\* an error thrown inside handle(): nothing catches it, tab.waitForCompletion
\* lets it through, and handle() rejects with it
Propagate(msg, who) ==
    /\ pc' = "error"
    /\ error' = msg
    /\ failedCall' = who
    /\ scope' = IF scope = "entered" THEN "aborted" ELSE scope
    /\ timer' = 0
    /\ UNCHANGED <<iteration, evidence, response, calls, stopReason>>

\* the clock reading t lies more than the timeout after startTime
Breached(t) == t - startTime > ELEMENT_ATTACHED_TIMEOUT

\* control reaches the next await of loopStart, or its end (the clock is now')
Enter(go) ==
    /\ pc' = CASE go.to = "runAction" -> "refLocatorAction"
               [] go.to = "evaluateCondition" -> "refLocatorCondition"
               [] OTHER -> "loopDone"
    /\ calls' = CASE go.to = "runAction" ->
                       [calls EXCEPT !.runAction = @ + 1, !.refLocator = @ + 1]
                  [] go.to = "evaluateCondition" ->
                       [calls EXCEPT !.evaluateCondition = @ + 1,
                                     !.refLocator = @ + 1]
                  [] OTHER -> calls
    /\ stopReason' = go.why
    /\ timer' = 0
    /\ late' = IF go.to = "runAction" /\ Breached(now') THEN late + 1 ELSE late

Inputs == <<loop, action, limits, startTime>>

(***************************************************************************)
(* The steps of handle(), one per stretch of code between two awaits.      *)
(***************************************************************************)
\* parse, the declarations, and the two checks of loop
Handle ==
    /\ pc = "start"
    /\ IF ValidationError # "none"
       THEN Propagate(ValidationError, "none")
       ELSE /\ pc' = "validated"
            /\ UNCHANGED <<iteration, evidence, scope, timer, error, response,
                           calls, failedCall, stopReason>>
    /\ UNCHANGED <<Inputs, now, condLog, settled, late>>

\* a variant of WaitForCompletion: loopStart awaited directly, outside the scope
WaitForCompletionUnwrapped ==
    /\ pc = "validated"
    /\ now' = now
    /\ scope' = scope
    /\ Enter(Resolve(LoopEntry, now))
    /\ UNCHANGED <<Inputs, iteration, evidence, error, response, condLog,
                   failedCall, settled>>

\* await tab.waitForCompletion(loopStart): the scope opens and calls loopStart,
\* which runs to its first await
WaitForCompletion ==
    /\ pc = "validated"
    /\ now' = now
    /\ scope' = "entered"
    /\ Enter(Resolve(LoopEntry, now))
    /\ UNCHANGED <<Inputs, iteration, evidence, error, response, condLog,
                   failedCall, settled>>

\* runAction: await tab.refLocator(..) settles, then the switch on action.type
RefLocatorAction ==
    /\ pc = "refLocatorAction"
    /\ \E d \in 0..MaxStep, ok \in BOOLEAN :
          /\ now' = Tick(d)
          /\ IF ~ok THEN Propagate("NotFoundError", "refLocator")
             ELSE IF ActionDispatch.throws # "none"
             THEN Propagate(ActionDispatch.throws, "none")
             ELSE /\ pc' = "interaction"
                  /\ calls' = [calls EXCEPT !.interaction = @ + 1]
                  /\ UNCHANGED <<iteration, evidence, scope, timer, error,
                                 response, failedCall, stopReason>>
    /\ settled' = settled + 1
    /\ UNCHANGED <<Inputs, condLog, late>>

\* a variant of Interaction: sleep(300) of the for loop started but not awaited
InteractionSleepNotAwaited ==
    /\ pc = "interaction"
    /\ \E d \in 0..MaxStep, ok \in BOOLEAN :
          /\ now' = Tick(d)
          /\ IF ~ok THEN Propagate("ActionError", "interaction")
             ELSE /\ iteration' = iteration + 1
                  /\ evidence' = Append(evidence, Record(iteration + 1))
                  /\ IF loop.type # "for"
                     THEN /\ pc' = "sleep"
                          /\ timer' = SleepMs
                          /\ calls' = [calls EXCEPT !.completed = @ + 1,
                                                    !.sleep = @ + 1]
                          /\ UNCHANGED stopReason
                     ELSE IF iteration + 1 < loop.iterations[1]
                     THEN /\ pc' = "refLocatorAction"
                          /\ timer' = SleepMs
                          /\ calls' = [calls EXCEPT !.completed = @ + 1,
                                                    !.sleep = @ + 1,
                                                    !.runAction = @ + 1,
                                                    !.refLocator = @ + 1]
                          /\ UNCHANGED stopReason
                     ELSE /\ pc' = "loopDone"
                          /\ timer' = SleepMs
                          /\ calls' = [calls EXCEPT !.completed = @ + 1,
                                                    !.sleep = @ + 1]
                          /\ stopReason' = "count"
                  /\ UNCHANGED <<scope, error, response, failedCall>>
    /\ settled' = settled + 1
    /\ UNCHANGED <<Inputs, condLog, late>>

\* a variant of Interaction: evidence.push(..) left out of the for loop
InteractionForUnrecorded ==
    /\ pc = "interaction"
    /\ \E d \in 0..MaxStep, ok \in BOOLEAN :
          /\ now' = Tick(d)
          /\ IF ~ok THEN Propagate("ActionError", "interaction")
             ELSE /\ iteration' = iteration + 1
                  /\ evidence' = IF loop.type = "for" THEN evidence
                                 ELSE Append(evidence, Record(iteration + 1))
                  /\ pc' = "sleep"
                  /\ timer' = SleepMs
                  /\ calls' = [calls EXCEPT !.completed = @ + 1, !.sleep = @ + 1]
                  /\ UNCHANGED <<scope, error, response, failedCall, stopReason>>
    /\ settled' = settled + 1
    /\ UNCHANGED <<Inputs, condLog, late>>

\* a variant of Interaction: iteration++ and evidence.push(..) done before the
\* interaction's outcome is known
InteractionRecordsFirst ==
    /\ pc = "interaction"
    /\ \E d \in 0..MaxStep, ok \in BOOLEAN :
          /\ now' = Tick(d)
          /\ iteration' = iteration + 1
          /\ evidence' = Append(evidence, Record(iteration + 1))
          /\ IF ~ok
             THEN /\ pc' = "error"
                  /\ error' = "ActionError"
                  /\ failedCall' = "interaction"
                  /\ scope' = "aborted"
                  /\ timer' = 0
                  /\ UNCHANGED <<response, calls, stopReason>>
             ELSE /\ pc' = "sleep"
                  /\ timer' = SleepMs
                  /\ calls' = [calls EXCEPT !.completed = @ + 1, !.sleep = @ + 1]
                  /\ UNCHANGED <<scope, error, response, failedCall, stopReason>>
    /\ settled' = settled + 1
    /\ UNCHANGED <<Inputs, condLog, late>>

\* await locator.click() / hover() / fill() / press() settles; then iteration++,
\* evidence.push(..) and sleep(..) starts
Interaction ==
    /\ pc = "interaction"
    /\ \E d \in 0..MaxStep, ok \in BOOLEAN :
          /\ now' = Tick(d)
          /\ IF ~ok THEN Propagate("ActionError", "interaction")
             ELSE /\ iteration' = iteration + 1
                  /\ evidence' = Append(evidence, Record(iteration + 1))
                  /\ pc' = "sleep"
                  /\ timer' = SleepMs
                  /\ calls' = [calls EXCEPT !.completed = @ + 1, !.sleep = @ + 1]
                  /\ UNCHANGED <<scope, error, response, failedCall, stopReason>>
    /\ settled' = settled + 1
    /\ UNCHANGED <<Inputs, condLog, late>>

\* await sleep(..) resolves; control goes on to the next await
Sleep ==
    /\ pc = "sleep"
    /\ \E d \in 0..MaxStep :
          /\ now' = Tick(d)
          /\ Enter(Resolve(AfterSleep(Tick(d)), Tick(d)))
    /\ settled' = settled + 1
    /\ UNCHANGED <<Inputs, iteration, evidence, scope, error, response, condLog,
                   failedCall>>

\* evaluateCondition: await tab.refLocator(..) settles, then the switch on
\* assertion.assertionType
RefLocatorCondition ==
    /\ pc = "refLocatorCondition"
    /\ \E d \in 0..MaxStep, ok \in BOOLEAN :
          /\ now' = Tick(d)
          /\ IF ~ok THEN Propagate("NotFoundError", "refLocator")
             ELSE IF AssertionDispatch.throws # "none"
             THEN Propagate(AssertionDispatch.throws, "none")
             ELSE /\ pc' = "check"
                  /\ calls' = [calls EXCEPT !.check = @ + 1]
                  /\ UNCHANGED <<iteration, evidence, scope, timer, error,
                                 response, failedCall, stopReason>>
    /\ settled' = settled + 1
    /\ UNCHANGED <<Inputs, condLog, late>>

\* await locator.isVisible() / isHidden() / isEnabled() / isDisabled() settles,
\* evaluateCondition returns, and the loop decides
Check ==
    /\ pc = "check"
    /\ \E d \in 0..MaxStep, ok \in BOOLEAN, result \in BOOLEAN :
          /\ now' = Tick(d)
          /\ IF ~ok
             THEN /\ Propagate("NotFoundError", "check")
                  /\ UNCHANGED <<condLog, late>>
             ELSE /\ condLog' = Append(condLog, ConditionMet(result))
                  /\ Enter(AfterCondition(ConditionMet(result), Tick(d)))
                  /\ UNCHANGED <<iteration, evidence, scope, error, response,
                                 failedCall>>
    /\ settled' = settled + 1
    /\ UNCHANGED Inputs

\* loopStart returned: tab.waitForCompletion settles and resolves
ScopeComplete ==
    /\ pc = "loopDone"
    /\ \E d \in 0..MaxStep : now' = Tick(d)
    /\ pc' = "completed"
    /\ scope' = "completed"
    /\ UNCHANGED <<Inputs, iteration, evidence, timer, error, response, calls,
                   condLog, failedCall, stopReason, settled, late>>

\* toolResponse is built and handed to response.addTextResult
AddTextResult ==
    /\ pc = "completed"
    /\ response' = Some(ToolResponse)
    /\ pc' = "done"
    /\ UNCHANGED <<Inputs, now, iteration, evidence, scope, timer, error, calls,
                   condLog, failedCall, stopReason, settled, late>>

Next ==
    \/ Handle
    \/ WaitForCompletion
    \/ RefLocatorAction
    \/ Interaction
    \/ Sleep
    \/ RefLocatorCondition
    \/ Check
    \/ ScopeComplete
    \/ AddTextResult

Spec == Init /\ [][Next]_vars

\* the event loop resumes handle() whenever the call or delay it awaits settles,
\* and every call and delay settles
FairSpec == Spec /\ WF_vars(Next)

TypeOK ==
    /\ loop \in Loops /\ action \in Actions /\ limits \in Limits
    /\ now \in 0..ClockCap /\ iteration \in Nat
    /\ pc \in {"start", "validated", "refLocatorAction", "interaction", "sleep",
               "refLocatorCondition", "check", "loopDone", "completed", "done",
               "error"}
    /\ scope \in {"none", "entered", "completed", "aborted"}
    /\ timer \in {0, 100, 300}

(***************************************************************************)
(* Properties.                                                             *)
(***************************************************************************)
Returned == pc \in {"loopDone", "completed", "done"}
Reported == pc = "done" /\ response # None
ValidFor == loop.type = "for" /\ loop.iterations # None
Conditional == loop.type \in {"while", "do-while"}
NeverMet == \A i \in 1..Len(condLog) : ~condLog[i]
MetAtOnce == condLog # <<>> /\ condLog[1]
MissingValue == action.type \in {"fill", "press"} /\ action.value = None

\* C1: a valid for spec with iterations = k >= 1 never starts more than k actions;
\* when the loop returns it has performed exactly k actions and holds exactly k
\* records numbered 1..k in order; the Report says 'pass'; and the invocation
\* fails only if the Action Executor failed.
C1_ForExactlyK ==
    (ValidFor /\ loop.iterations[1] >= 1) =>
        LET k == loop.iterations[1] IN
        /\ calls.runAction <= k
        /\ Returned =>
              /\ calls.runAction = k
              /\ calls.completed = k
              /\ Len(evidence) = k
              /\ \A i \in 1..k : evidence[i].iteration = i
        /\ Reported =>
              /\ response[1].summary.status = "pass"
              /\ response[1].summary.evidence = evidence
        /\ pc = "error" => (failedCall # "none" \/ ActionDispatch.throws # "none")

C1_Witness ==
    /\ Reported /\ ValidFor /\ loop.iterations[1] = 2
    /\ Len(evidence) = 2 /\ response[1].summary.status = "pass"

\* C2 as stated: a while or do-while run whose stop condition never became true
\* returns with exactly maxIterations records and maxIterations actions started.
C2_Original ==
    (Returned /\ Conditional /\ NeverMet) =>
        /\ Len(evidence) = maxIterations
        /\ calls.runAction = maxIterations

\* C2 amended: a while or do-while run (maxIterations >= 1 for do-while) whose stop
\* condition never became true and which the wall-clock timeout did not end
\* returns with exactly maxIterations records and maxIterations actions started.
C2_CapReached ==
    (/\ Returned /\ Conditional /\ NeverMet
     /\ stopReason # "timeout"
     /\ (loop.type = "do-while" => maxIterations >= 1)) =>
        /\ Len(evidence) = maxIterations
        /\ calls.runAction = maxIterations

C2_Witness ==
    /\ Reported /\ loop.type = "do-while" /\ maxIterations = 2
    /\ NeverMet /\ Len(condLog) = 2 /\ stopReason = "cap"
    /\ Len(evidence) = 2

\* C3: once the loop has started, a do-while run has started an action; it
\* evaluates its condition only after an action completed; it never returns with
\* no record; and when its first evaluation is true it returns with exactly one
\* record, where a while run returns with none.
C3_DoWhileAtLeastOnce ==
    /\ loop.type = "do-while" =>
          /\ scope # "none" => calls.runAction >= 1
          /\ calls.evaluateCondition >= 1 => Len(evidence) >= 1
          /\ Returned => Len(evidence) >= 1
          /\ (Returned /\ MetAtOnce) => (Len(evidence) = 1 /\ calls.runAction = 1)
    /\ (loop.type = "while" /\ Returned /\ MetAtOnce) => Len(evidence) = 0

C3_Witness ==
    /\ Reported /\ loop.type = "do-while" /\ condLog = <<TRUE>>
    /\ Len(evidence) = 1

\* C4: a while run whose first evaluation of the stop condition is true starts no
\* action, holds no record, has left the loop, and reports 'fail'.
C4_WhileTrueFromStart ==
    (loop.type = "while" /\ MetAtOnce) =>
        /\ calls.runAction = 0
        /\ calls.interaction = 0
        /\ evidence = <<>>
        /\ Returned
        /\ Reported => response[1].summary.status = "fail"

C4_Witness ==
    /\ Reported /\ loop.type = "while" /\ condLog = <<TRUE>>
    /\ response[1].summary.status = "fail"

\* C5: a for spec with iterations = 0 starts no action, holds no record, never
\* fails, and its Report says 'fail' with total 0.
C5_ForZero ==
    (ValidFor /\ loop.iterations[1] = 0) =>
        /\ calls.runAction = 0
        /\ evidence = <<>>
        /\ pc # "error"
        /\ Reported =>
              /\ response[1].summary.status = "fail"
              /\ response[1].summary.total = 0
              /\ response[1].summary.evidence = <<>>

C5_Witness ==
    /\ Reported /\ ValidFor /\ loop.iterations[1] = 0
    /\ response[1].summary.status = "fail"

\* C6: a for spec without iterations, or a while / do-while spec without until,
\* makes no collaborator call, opens no scope, holds no evidence, emits no Report,
\* and its only step is the one that fails the invocation.
C6_InvalidLoopRejected ==
    ((loop.type = "for" /\ loop.iterations = None)
        \/ (Conditional /\ loop.until = None)) =>
        /\ calls = NoCalls
        /\ scope = "none"
        /\ evidence = <<>>
        /\ response = None
        /\ pc \in {"start", "error"}
        /\ pc = "error" => error # "none"

C6_Witness ==
    /\ pc = "error" /\ loop.type = "do-while" /\ loop.until = None
    /\ calls = NoCalls

\* C7 as stated: with a fill / press action lacking its value, an unsupported
\* action type or an unsupported assertion type, no interaction is made, no
\* record is produced and no Report is emitted (the invocation can only fail).
C7_InvalidInputFailsFirst ==
    (\/ MissingValue
     \/ action.type \notin ActionTypes
     \/ (loop.until # None /\ loop.until[1].assertionType \notin AssertionTypes)) =>
        /\ calls.interaction = 0
        /\ evidence = <<>>
        /\ ~Returned

\* C8: with a fill / press action lacking its value the locator's interaction
\* method is never called, at most one action is attempted, and once that
\* attempt's locate has settled the invocation has failed.
C8_MissingValueNeverInteracts ==
    MissingValue =>
        /\ calls.interaction = 0
        /\ calls.runAction <= 1
        /\ evidence = <<>>
        /\ (calls.runAction = 1 /\ pc # "refLocatorAction") => pc = "error"

C8_Witness ==
    /\ pc = "error" /\ action.type = "press" /\ action.value = None
    /\ error = "Press action requires a value"
    /\ calls.runAction = 1

\* C9: in every Report, status is 'pass' exactly when the final iteration count is
\* positive, whatever ended the loop, and the check's actual (and the summary's
\* total) is the final iteration count.
C9_Verdict ==
    Reported =>
        LET r == response[1] IN
        /\ (r.summary.status = "pass") <=> (iteration > 0)
        /\ (r.summary.status = "fail") <=> (iteration = 0)
        /\ r.checks[1].actual = iteration
        /\ r.checks[1].result = r.summary.status
        /\ r.summary.total = iteration
        /\ Len(r.checks) = 1

C9_Witness ==
    /\ Reported /\ stopReason = "timeout"
    /\ response[1].summary.status = "pass"
    /\ response[1].checks[1].actual = 1

\* C10: when a collaborator call fails the invocation is in error with no Report,
\* the evidence holds exactly the records of the actions that completed (none for
\* the failed one), the failing step changes neither counter nor evidence nor
\* starts a call or a delay, and nothing happens afterwards.
C10_FailureAborts ==
    /\ [](failedCall # "none" =>
            /\ pc = "error"
            /\ response = None
            /\ timer = 0
            /\ Len(evidence) = calls.completed
            /\ iteration = calls.completed
            /\ failedCall = "interaction" => calls.interaction = Len(evidence) + 1)
    /\ [][(failedCall = "none" /\ failedCall' # "none") =>
             (evidence' = evidence /\ iteration' = iteration /\ calls' = calls)]_vars
    /\ [][failedCall # "none" => UNCHANGED vars]_vars

C10_Witness ==
    /\ pc = "error" /\ failedCall = "interaction"
    /\ Len(evidence) = 1 /\ calls.runAction = 2

ValidConditional == Conditional /\ loop.until # None
SupportedInput ==
    /\ ~MissingValue
    /\ action.type \in ActionTypes
    /\ loop.until # None => loop.until[1].assertionType \in AssertionTypes
InFlight ==
    calls.refLocator + calls.interaction + calls.check + calls.sleep - settled

\* C11: a valid while / do-while run on a supported action and assertion fails
\* only if a collaborator call failed, and, every call returning, it eventually
\* ends: it emits a Report (of one check, its evidence the records made) whether
\* the condition, the iteration cap or the timeout stopped it.
C11_Terminates ==
    /\ []((ValidConditional /\ SupportedInput /\ pc = "error")
             => failedCall # "none")
    /\ []((ValidConditional /\ Reported) =>
             /\ stopReason \in {"condition", "cap", "timeout"}
             /\ response[1].summary.total = Len(response[1].summary.evidence)
             /\ response[1].summary.passed + response[1].summary.failed = 1
             /\ Len(response[1].checks) = 1)
    /\ (ValidConditional /\ SupportedInput) ~> (Reported \/ failedCall # "none")

C11_Witness ==
    /\ Reported /\ loop.type = "while" /\ NeverMet /\ stopReason = "cap"
    /\ maxIterations = 20 /\ iteration = 20

IsPrefix(a, b) == Len(a) <= Len(b) /\ SubSeq(b, 1, Len(a)) = a

\* C12: in every state and for every discipline the i-th evidence record carries
\* iteration number i, and every step leaves the evidence as it was or appends
\* one record to it.
C12_EvidenceMonotonic ==
    /\ [](\A i \in 1..Len(evidence) : evidence[i].iteration = i)
    /\ [][/\ IsPrefix(evidence, evidence')
          /\ Len(evidence') <= Len(evidence) + 1]_vars
    /\ [](Reported => response[1].summary.evidence = evidence)

C12_Witness ==
    /\ loop.type = "while" /\ Len(evidence) = 3
    /\ evidence[3].iteration = 3 /\ evidence[1].iteration = 1

\* C13: in every state the number of evidence records equals the iteration
\* counter and the number of actions that completed without error, and the
\* Report's total and evidence agree with them.
C13_OneRecordPerAction ==
    /\ Len(evidence) = iteration
    /\ Len(evidence) = calls.completed
    /\ calls.completed <= calls.interaction
    /\ Reported =>
          /\ response[1].summary.total = calls.completed
          /\ Len(response[1].summary.evidence) = calls.completed

C13_Witness ==
    /\ pc = "sleep" /\ loop.type = "for" /\ calls.completed = 2
    /\ Len(evidence) = 2 /\ iteration = 2

Max(a, b) == IF a > b THEN a ELSE b
Awaiting ==
    pc \in {"refLocatorAction", "interaction", "sleep", "refLocatorCondition",
            "check"}

\* C14 as stated: in a while or do-while run the number of actions performed
\* never exceeds maxIterations.
C14_Original == Conditional => calls.completed <= maxIterations

\* C14 amended: a while run never starts more than maxIterations actions, and a
\* do-while run never starts more than the larger of maxIterations and 1.
C14_CapBounds ==
    /\ loop.type = "while" => calls.runAction <= maxIterations
    /\ loop.type = "do-while" => calls.runAction <= Max(maxIterations, 1)

C14_Witness ==
    /\ Reported /\ loop.type = "do-while" /\ maxIterations = 0
    /\ calls.completed = 1 /\ stopReason = "cap"

\* C15: in a while run every action is started in the step in which an
\* evaluation of the stop condition returned false, so the actions started are
\* as many as the false evaluations; only the last evaluation can be true, and
\* once it is the loop has returned and no call is made afterwards.
C15_WhileChecksFirst ==
    /\ [](loop.type = "while" =>
            /\ calls.runAction = Cardinality({i \in 1..Len(condLog) : ~condLog[i]})
            /\ \A i \in 1..(Len(condLog) - 1) : ~condLog[i]
            /\ (condLog # <<>> /\ condLog[Len(condLog)]) => Returned)
    /\ [][(loop.type = "while" /\ calls'.runAction > calls.runAction) =>
             condLog' = Append(condLog, FALSE)]_vars
    /\ [][(loop.type = "while" /\ condLog # <<>> /\ condLog[Len(condLog)]) =>
             calls' = calls]_vars

C15_Witness ==
    /\ Reported /\ loop.type = "while" /\ condLog = <<FALSE, FALSE, TRUE>>
    /\ calls.runAction = 2

\* C16: in a while run a cycle whose top finds the timeout exceeded or the counter
\* at maxIterations leaves the loop in that step; no evaluation of the condition
\* is started in such a state; and a run stopped by either guard has evaluated
\* the condition and started an action once per completed iteration, no more.
C16_WhileGuardsAtTop ==
    /\ [][(loop.type = "while" /\ calls'.evaluateCondition > calls.evaluateCondition)
             => (~Breached(now') /\ iteration' < maxIterations)]_vars
    /\ [][(/\ loop.type = "while" /\ pc \in {"validated", "sleep"}
           /\ (Breached(now') \/ iteration' >= maxIterations))
             => pc' = "loopDone"]_vars
    /\ []((loop.type = "while" /\ stopReason \in {"timeout", "cap"}) =>
             /\ Returned
             /\ Len(evidence) = iteration
             /\ calls.evaluateCondition = iteration
             /\ calls.runAction = iteration)

C16_Witness ==
    /\ Reported /\ loop.type = "while" /\ stopReason = "timeout"
    /\ iteration = 1 /\ maxIterations > 1 /\ calls.evaluateCondition = 1

\* C17: at most one call or delay is in flight, exactly one while handle() is
\* suspended inside the loop; and while an action is in progress every earlier
\* action, record and delay is complete, as are the evaluations of the condition
\* due before it (one more than the iterations done in a while run, as many as
\* the iterations done in a do-while run).
C17_Serialized ==
    /\ InFlight \in {0, 1}
    /\ (Awaiting <=> InFlight = 1)
    /\ pc \in {"refLocatorAction", "interaction"} =>
          /\ calls.runAction = iteration + 1
          /\ calls.completed = iteration
          /\ Len(evidence) = iteration
          /\ calls.sleep = iteration
          /\ calls.check = Len(condLog)
          /\ loop.type = "while" => Len(condLog) = iteration + 1
          /\ loop.type = "do-while" => Len(condLog) = iteration
          /\ loop.type = "for" => Len(condLog) = 0

C17_Witness ==
    /\ pc = "interaction" /\ loop.type = "do-while" /\ iteration = 2
    /\ calls.runAction = 3 /\ InFlight = 1

\* C18: every collaborator call and delay starts and settles while the scope of
\* tab.waitForCompletion is open; an error of the loop-spec validation leaves the
\* scope unopened; and the Report exists only once the scope has completed.
C18_ScopeWraps ==
    /\ [](/\ Awaiting => scope = "entered"
          /\ (calls # NoCalls \/ settled > 0) => scope # "none"
          /\ (pc = "error" /\ ValidationError # "none") =>
                (scope = "none" /\ calls = NoCalls)
          /\ response # None => scope = "completed"
          /\ pc = "completed" => scope = "completed")
    /\ [][calls' # calls => (scope' = "entered")]_vars
    /\ [][settled' # settled => (scope = "entered")]_vars
    /\ [][scope = "completed" => (calls' = calls /\ scope' = "completed")]_vars

C18_Witness ==
    /\ Reported /\ scope = "completed" /\ calls.sleep = 2
    /\ calls.check = 2

\* C19: in a while or do-while run at most one action is started with the timeout
\* already exceeded, and after such an action no further action is started.
C19_AtMostOneLateAction ==
    /\ [](Conditional => late <= 1)
    /\ [][(Conditional /\ late >= 1) => calls'.runAction = calls.runAction]_vars

C19_Witness ==
    /\ Reported /\ loop.type = "while" /\ late = 1
    /\ stopReason = "timeout" /\ maxIterations = 20

\* C20: a for run returns only with exactly loop.iterations actions completed,
\* whatever maxIterations, the clock and until are, and it never evaluates a
\* condition; until it has done so it keeps going past the cap and the timeout.
C20_ForIgnoresLimits ==
    ValidFor =>
        /\ calls.evaluateCondition = 0
        /\ condLog = <<>>
        /\ Returned =>
              /\ iteration = loop.iterations[1]
              /\ calls.completed = loop.iterations[1]
              /\ stopReason = "count"
        /\ (pc = "loopDone") => iteration >= loop.iterations[1]
        /\ (iteration < loop.iterations[1] /\ pc # "start" /\ pc # "validated")
              => (Awaiting \/ pc = "error")

C20_Witness ==
    /\ Reported /\ ValidFor /\ loop.iterations[1] = 2 /\ maxIterations < 2
    /\ Breached(now) /\ late >= 1 /\ loop.until # None
    /\ calls.completed = 2

====
